---- MODULE Spec2Model ----
(***************************************************************************)
(* Model of the driver main() of                                           *)
(* experiments/supercell_micro_surrogate/generate_micro_data.cpp.          *)
(*                                                                         *)
(* The driver is one sequential program.  Its position is pc; every        *)
(* statement that calls into the coupler or a physics module is one        *)
(* action.  Values of type `real` are binary floating-point numbers: they  *)
(* are kept as integers counted in units of the smallest representable     *)
(* step, and every arithmetic result is rounded to Prec significant bits,  *)
(* round-to-nearest, ties to even.                                         *)
(***************************************************************************)
EXTENDS Integers, Sequences, FiniteSets, TLC

Last(s) == s[Len(s)]

VARIABLES
  pc,         \* position in main()
  argc,       \* number of command-line arguments
  config,     \* truth value of the loaded YAML node
  sim_time,   \* real sim_time
  grid,       \* nx, ny, nz, xlen, ylen, zlen
  dtphys_in,  \* real dtphys_in
  etime,      \* real etime
  dtphys,     \* real dtphys
  coupler,    \* contents of the live coupler's fields
  input,      \* the loop-local core::Coupler input
  samples,    \* arguments of every completed generate_samples call
  calls,      \* every call made into coupler / modules, in order
  iter,       \* number of completed loop iterations
  cand,       \* dtphys as it stood before the clamp of line 70
  returned,   \* the values dycore.compute_time_step has returned, in order
  failed      \* the call that did not return, or "none"

vars == << pc, argc, config, sim_time, grid, dtphys_in, etime, dtphys,
           coupler, input, samples, calls, iter, cand, returned, failed >>

(***************************************************************************)
(* Bounds of the model.                                                    *)
(***************************************************************************)
Prec == 3       \* significant bits of a real
MaxIter == 6    \* loop iterations explored in one run

SimTimes == {0, 10, 14}        \* values of sim_time in the input file
DtPhysIn == {0, 1, 5}          \* values of dt_phys in the input file
AutoSteps == {0, 1, 7, 12}     \* values dycore.compute_time_step may return

GoodGrid == [nz |-> 2, ny |-> 2, nx |-> 2, xlen |-> 4, ylen |-> 4, zlen |-> 4]
GridConfigs ==
  { GoodGrid,
    [GoodGrid EXCEPT !.nz = 0],   [GoodGrid EXCEPT !.ny = 0],
    [GoodGrid EXCEPT !.nx = -1],  [GoodGrid EXCEPT !.xlen = 0],
    [GoodGrid EXCEPT !.ylen = -4], [GoodGrid EXCEPT !.zlen = 0] }

(***************************************************************************)
(* Floating-point arithmetic on real.                                      *)
(***************************************************************************)
RECURSIVE Pow2(_)
Pow2(n) == IF n = 0 THEN 1 ELSE 2 * Pow2(n - 1)

\* spacing of the representable numbers around the magnitude x
RECURSIVE Ulp(_)
Ulp(x) == IF x < Pow2(Prec) THEN 1 ELSE 2 * Ulp(x \div 2)

\* round a non-negative exact value to nearest, ties to even
RoundMag(x) ==
  LET u  == Ulp(x)
      lo == (x \div u) * u
      r  == x - lo
  IN  IF 2 * r < u THEN lo
      ELSE IF 2 * r > u THEN lo + u
      ELSE IF (lo \div u) % 2 = 0 THEN lo ELSE lo + u

Fl(x) == IF x < 0 THEN 0 - RoundMag(0 - x) ELSE RoundMag(x)

fadd(a, b) == Fl(a + b)
fsub(a, b) == Fl(a - b)

(***************************************************************************)
(* The modules behind the calls.  A call that mutates the coupler in place *)
(* is recorded on the coupler's contents, so two contents are equal        *)
(* exactly when the same calls with the same arguments produced them.      *)
(***************************************************************************)
Call(name, args) == << name, args >>

Apply(c, name, args) == Append(c, Call(name, args))

MicroStep(c, dt) == Apply(c, "micro.time_step", << dt >>)

NoInput == [alias |-> FALSE, fields |-> << >>]

\* Coupler::clone_into: fresh storage holding a copy of every field
clone_into(c) == [alias |-> FALSE, fields |-> c]

\* what the fields of input hold now
InputFields == IF input.alias THEN coupler ELSE input.fields

Sample(pre, post, dt, et) == [pre |-> pre, post |-> post, dt |-> dt, etime |-> et]

(***************************************************************************)
(* Initial state: the process has started, nothing has run.                *)
(***************************************************************************)
Init ==
  /\ pc = "check_argc"
  /\ argc \in {1, 2}
  /\ config = FALSE
  /\ sim_time = 0
  /\ grid = GoodGrid
  /\ dtphys_in = 0
  /\ etime = 0
  /\ dtphys = 0
  /\ coupler = << >>
  /\ input = NoInput
  /\ samples = << >>
  /\ calls = << >>
  /\ iter = 0
  /\ cand = 0
  /\ returned = << >>
  /\ failed = "none"

\* endrun(msg): report and end the process
endrun == pc' = "fatal"

\* a call that does not return: the exception leaves main(), the process ends
Throws(name, args) ==
  /\ calls' = Append(calls, Call(name, args))
  /\ failed' = name
  /\ pc' = "fatal"
  /\ UNCHANGED << argc, config, sim_time, grid, dtphys_in, etime, dtphys,
                  coupler, input, samples, iter, cand, returned >>

\* a call that returns after mutating the coupler in place
Mutates(name, args, next) ==
  /\ calls' = Append(calls, Call(name, args))
  /\ coupler' = Apply(coupler, name, args)
  /\ pc' = next
  /\ UNCHANGED << argc, config, sim_time, grid, dtphys_in, etime, dtphys,
                  input, samples, iter, cand, returned, failed >>

(***************************************************************************)
(* Lines 20-32: the input file.                                            *)
(***************************************************************************)
CheckArgc ==
  /\ pc = "check_argc"
  /\ IF argc <= 1 THEN endrun ELSE pc' = "load_file"
  /\ UNCHANGED << argc, config, sim_time, grid, dtphys_in, etime, dtphys,
                  coupler, input, samples, calls, iter, cand, returned, failed >>

LoadFile ==
  /\ pc = "load_file"
  /\ \E ok \in BOOLEAN : config' = ok
  /\ pc' = "check_config"
  /\ UNCHANGED << argc, sim_time, grid, dtphys_in, etime, dtphys,
                  coupler, input, samples, calls, iter, cand, returned, failed >>

\* variant of CheckConfig: the node is used without being tested
CheckConfig_NoCheck ==
  /\ pc = "check_config"
  /\ pc' = "read_config"
  /\ UNCHANGED << argc, config, sim_time, grid, dtphys_in, etime, dtphys,
                  coupler, input, samples, calls, iter, cand, returned, failed >>

CheckConfig ==
  /\ pc = "check_config"
  /\ IF ~config THEN endrun ELSE pc' = "read_config"
  /\ UNCHANGED << argc, config, sim_time, grid, dtphys_in, etime, dtphys,
                  coupler, input, samples, calls, iter, cand, returned, failed >>

ReadConfig ==
  /\ pc = "read_config"
  /\ \E st \in SimTimes, g \in GridConfigs, d \in DtPhysIn :
        /\ sim_time' = st
        /\ grid' = g
        /\ dtphys_in' = d
  /\ pc' = "set_phys_constants"
  /\ UNCHANGED << argc, config, etime, dtphys,
                  coupler, input, samples, calls, iter, cand, returned, failed >>

(***************************************************************************)
(* Lines 44-54: coupler set-up.                                            *)
(***************************************************************************)
SetPhysConstants ==
  /\ pc = "set_phys_constants"
  /\ Mutates("set_phys_constants", << >>, "allocate_coupler_state")

\* variant of AllocateCouplerState: the set_grid call after it is left out
AllocateCouplerState_SkipsGrid ==
  /\ pc = "allocate_coupler_state"
  /\ Mutates("allocate_coupler_state", << grid.nz, grid.ny, grid.nx >>, "set_option")

AllocateCouplerState ==
  /\ pc = "allocate_coupler_state"
  /\ Mutates("allocate_coupler_state", << grid.nz, grid.ny, grid.nx >>, "set_grid")

SetGrid ==
  /\ pc = "set_grid"
  /\ Mutates("set_grid", << grid.xlen, grid.ylen, grid.zlen >>, "set_option")

SetOption ==
  /\ pc = "set_option"
  /\ Mutates("set_option", << >>, "micro.init")

(***************************************************************************)
(* Lines 56-61: initialization modules.                                    *)
(***************************************************************************)
MicroInit ==
  /\ pc = "micro.init"
  /\ \/ Mutates("micro.init", << >>, "dycore.init")
     \/ Throws("micro.init", << >>)

DycoreInit ==
  /\ pc = "dycore.init"
  /\ \/ Mutates("dycore.init", << >>, "set_column")
     \/ Throws("dycore.init", << >>)

\* variant of SetColumn: the temperature perturbation after it is left out
SetColumn_SkipsPerturb ==
  /\ pc = "set_column"
  /\ \/ Mutates("set_column", << >>, "data_generator.init")
     \/ Throws("set_column", << >>)

SetColumn ==
  /\ pc = "set_column"
  /\ \/ Mutates("set_column", << >>, "perturb_temperature")
     \/ Throws("set_column", << >>)

PerturbTemperature ==
  /\ pc = "perturb_temperature"
  /\ \/ Mutates("perturb_temperature", << >>, "data_generator.init")
     \/ Throws("perturb_temperature", << >>)

DataGeneratorInit ==
  /\ pc = "data_generator.init"
  /\ \/ /\ calls' = Append(calls, Call("data_generator.init", << >>))
        /\ pc' = "loop_init"
        /\ UNCHANGED << argc, config, sim_time, grid, dtphys_in, etime, dtphys,
                        coupler, input, samples, iter, cand, returned, failed >>
     \/ Throws("data_generator.init", << >>)

(***************************************************************************)
(* Lines 63-70: the loop head and the time-step policy.                    *)
(***************************************************************************)
LoopInit ==
  /\ pc = "loop_init"
  /\ etime' = 0
  /\ dtphys' = dtphys_in
  /\ pc' = "loop_test"
  /\ UNCHANGED << argc, config, sim_time, grid, dtphys_in,
                  coupler, input, samples, calls, iter, cand, returned, failed >>

\* variant of LoopTest: while (etime <= sim_time)
LoopTest_Inclusive ==
  /\ pc = "loop_test"
  /\ \/ /\ etime <= sim_time
        /\ iter < MaxIter
        /\ pc' = "compute_dt"
     \/ /\ ~(etime <= sim_time)
        /\ pc' = "done"
  /\ UNCHANGED << argc, config, sim_time, grid, dtphys_in, etime, dtphys,
                  coupler, input, samples, calls, iter, cand, returned, failed >>

\* variant of LoopTest: do { ... } while (etime < sim_time)
LoopTest_DoWhile ==
  /\ pc = "loop_test"
  /\ \/ /\ (iter = 0 \/ etime < sim_time)
        /\ iter < MaxIter
        /\ pc' = "compute_dt"
     \/ /\ ~(iter = 0 \/ etime < sim_time)
        /\ pc' = "done"
  /\ UNCHANGED << argc, config, sim_time, grid, dtphys_in, etime, dtphys,
                  coupler, input, samples, calls, iter, cand, returned, failed >>

\* while (etime < sim_time)
LoopTest ==
  /\ pc = "loop_test"
  /\ \/ /\ etime < sim_time
        /\ iter < MaxIter
        /\ pc' = "compute_dt"
     \/ /\ ~(etime < sim_time)
        /\ pc' = "done"
  /\ UNCHANGED << argc, config, sim_time, grid, dtphys_in, etime, dtphys,
                  coupler, input, samples, calls, iter, cand, returned, failed >>

\* variant of ComputeDt: if (dtphys_in < 0.)
ComputeDt_Strict ==
  /\ pc = "compute_dt"
  /\ \/ /\ dtphys_in < 0
        /\ \E r \in AutoSteps :
              /\ dtphys' = r
              /\ returned' = Append(returned, r)
        /\ calls' = Append(calls, Call("compute_time_step", << >>))
     \/ /\ ~(dtphys_in < 0)
        /\ UNCHANGED << dtphys, calls, returned >>
  /\ cand' = dtphys'
  /\ pc' = "clamp"
  /\ UNCHANGED << argc, config, sim_time, grid, dtphys_in, etime,
                  coupler, input, samples, iter, failed >>

\* if (dtphys_in <= 0.) { dtphys = dycore.compute_time_step(coupler); }
ComputeDt ==
  /\ pc = "compute_dt"
  /\ \/ /\ dtphys_in <= 0
        /\ \E r \in AutoSteps :
              /\ dtphys' = r
              /\ returned' = Append(returned, r)
        /\ calls' = Append(calls, Call("compute_time_step", << >>))
     \/ /\ ~(dtphys_in <= 0)
        /\ UNCHANGED << dtphys, calls, returned >>
  /\ cand' = dtphys'
  /\ pc' = "clamp"
  /\ UNCHANGED << argc, config, sim_time, grid, dtphys_in, etime,
                  coupler, input, samples, iter, failed >>

\* variant of Clamp: the guard and the limit leave out the elapsed time
Clamp_IgnoresElapsed ==
  /\ pc = "clamp"
  /\ dtphys' = IF dtphys > sim_time THEN sim_time ELSE dtphys
  /\ pc' = "dycore.time_step"
  /\ UNCHANGED << argc, config, sim_time, grid, dtphys_in, etime,
                  coupler, input, samples, calls, iter, cand, returned, failed >>

\* if (etime + dtphys > sim_time) { dtphys = sim_time - etime; }
Clamp ==
  /\ pc = "clamp"
  /\ dtphys' = IF fadd(etime, dtphys) > sim_time
                 THEN fsub(sim_time, etime) ELSE dtphys
  /\ pc' = "dycore.time_step"
  /\ UNCHANGED << argc, config, sim_time, grid, dtphys_in, etime,
                  coupler, input, samples, calls, iter, cand, returned, failed >>

(***************************************************************************)
(* Lines 72-86: the runtime modules and the time advance.                  *)
(***************************************************************************)
DycoreTimeStep ==
  /\ pc = "dycore.time_step"
  /\ \/ Mutates("dycore.time_step", << dtphys >>, "clone_into")
     \/ Throws("dycore.time_step", << dtphys >>)

\* variant of CloneInto: core::Coupler input = coupler; the fields are shared
CloneInto_Shallow ==
  /\ pc = "clone_into"
  /\ \/ /\ calls' = Append(calls, Call("clone_into", << >>))
        /\ input' = [alias |-> TRUE, fields |-> << >>]
        /\ pc' = "micro.time_step"
        /\ UNCHANGED << argc, config, sim_time, grid, dtphys_in, etime, dtphys,
                        coupler, samples, iter, cand, returned, failed >>
     \/ Throws("clone_into", << >>)

\* core::Coupler input;  coupler.clone_into(input);
CloneInto ==
  /\ pc = "clone_into"
  /\ \/ /\ calls' = Append(calls, Call("clone_into", << >>))
        /\ input' = clone_into(coupler)
        /\ pc' = "micro.time_step"
        /\ UNCHANGED << argc, config, sim_time, grid, dtphys_in, etime, dtphys,
                        coupler, samples, iter, cand, returned, failed >>
     \/ Throws("clone_into", << >>)

\* variant of MicroTimeStep: the sample generation after it is left out
MicroTimeStep_SkipsSamples ==
  /\ pc = "micro.time_step"
  /\ \/ Mutates("micro.time_step", << dtphys >>, "sponge_layer")
     \/ Throws("micro.time_step", << dtphys >>)

MicroTimeStep ==
  /\ pc = "micro.time_step"
  /\ \/ Mutates("micro.time_step", << dtphys >>, "generate_samples")
     \/ Throws("micro.time_step", << dtphys >>)

\* variant of GenerateSamples: the step before the clamp is handed over
GenerateSamples_NominalDt ==
  /\ pc = "generate_samples"
  /\ \/ /\ calls' = Append(calls, Call("generate_samples", << cand >>))
        /\ samples' = Append(samples, Sample(InputFields, coupler, cand, etime))
        /\ pc' = "sponge_layer"
        /\ UNCHANGED << argc, config, sim_time, grid, dtphys_in, etime, dtphys,
                        coupler, input, iter, cand, returned, failed >>
     \/ Throws("generate_samples", << cand >>)

\* data_generator.generate_samples( input , coupler , dtphys , etime );
GenerateSamples ==
  /\ pc = "generate_samples"
  /\ \/ /\ calls' = Append(calls, Call("generate_samples", << dtphys >>))
        /\ samples' = Append(samples, Sample(InputFields, coupler, dtphys, etime))
        /\ pc' = "sponge_layer"
        /\ UNCHANGED << argc, config, sim_time, grid, dtphys_in, etime, dtphys,
                        coupler, input, iter, cand, returned, failed >>
     \/ Throws("generate_samples", << dtphys >>)

\* variant of SpongeLayer: a failure of the call is caught and the loop goes on
SpongeLayer_Swallows ==
  /\ pc = "sponge_layer"
  /\ \/ Mutates("sponge_layer", << dtphys >>, "nudge_to_column")
     \/ /\ calls' = Append(calls, Call("sponge_layer", << dtphys >>))
        /\ failed' = "sponge_layer"
        /\ pc' = "nudge_to_column"
        /\ UNCHANGED << argc, config, sim_time, grid, dtphys_in, etime, dtphys,
                        coupler, input, samples, iter, cand, returned >>

SpongeLayer ==
  /\ pc = "sponge_layer"
  /\ \/ Mutates("sponge_layer", << dtphys >>, "nudge_to_column")
     \/ Throws("sponge_layer", << dtphys >>)

\* variant of NudgeToColumn: the step before the clamp is handed over
NudgeToColumn_NominalDt ==
  /\ pc = "nudge_to_column"
  /\ \/ Mutates("nudge_to_column", << cand >>, "advance")
     \/ Throws("nudge_to_column", << cand >>)

NudgeToColumn ==
  /\ pc = "nudge_to_column"
  /\ \/ Mutates("nudge_to_column", << dtphys >>, "advance")
     \/ Throws("nudge_to_column", << dtphys >>)

\* variant of Advance: the time advances by the step before the clamp
Advance_NominalStep ==
  /\ pc = "advance"
  /\ etime' = fadd(etime, cand)
  /\ iter' = iter + 1
  /\ input' = NoInput
  /\ pc' = "loop_test"
  /\ UNCHANGED << argc, config, sim_time, grid, dtphys_in, dtphys,
                  coupler, samples, calls, cand, returned, failed >>

\* etime += dtphys;  and the end of the loop body, where input goes out of scope
Advance ==
  /\ pc = "advance"
  /\ etime' = fadd(etime, dtphys)
  /\ iter' = iter + 1
  /\ input' = NoInput
  /\ pc' = "loop_test"
  /\ UNCHANGED << argc, config, sim_time, grid, dtphys_in, dtphys,
                  coupler, samples, calls, cand, returned, failed >>

Next ==
  \/ CheckArgc \/ LoadFile \/ CheckConfig \/ ReadConfig
  \/ SetPhysConstants \/ AllocateCouplerState \/ SetGrid \/ SetOption
  \/ MicroInit \/ DycoreInit \/ SetColumn \/ PerturbTemperature
  \/ DataGeneratorInit
  \/ LoopInit \/ LoopTest \/ ComputeDt \/ Clamp
  \/ DycoreTimeStep \/ CloneInto \/ MicroTimeStep \/ GenerateSamples
  \/ SpongeLayer \/ NudgeToColumn \/ Advance

Spec == Init /\ [][Next]_vars

TypeOK ==
  /\ argc \in {1, 2}
  /\ config \in BOOLEAN
  /\ iter \in 0..MaxIter
  /\ Len(samples) <= MaxIter

(***************************************************************************)
(* Vocabulary of the properties.                                           *)
(***************************************************************************)
\* positions inside the loop body after the clamp of line 70
InBody == { "dycore.time_step", "clone_into", "micro.time_step",
            "generate_samples", "sponge_layer", "nudge_to_column", "advance" }

\* positions inside the loop body after micro.time_step has returned
AfterMicro == { "generate_samples", "sponge_layer", "nudge_to_column", "advance" }

HasCall(name) == \E i \in DOMAIN calls : calls[i][1] = name

\* the candidate step of the current iteration as the time-step policy names it
Candidate == IF dtphys_in <= 0 THEN cand ELSE dtphys_in

\* index of the last dycore.time_step recorded on contents c (0 if none)
LastDycore(c) ==
  LET S == { i \in DOMAIN c : c[i][1] = "dycore.time_step" }
  IN  IF S = {} THEN 0 ELSE CHOOSE i \in S : \A j \in S : j <= i

(***************************************************************************)
(* C1  Step-size clamping.  In every loop iteration, with elapsed time e,  *)
(* target T and candidate c (the configured dt_phys, or the value          *)
(* compute_time_step returned), the step the modules are run with is       *)
(* T - e when e + c > T and is c otherwise; + and - are the operations of  *)
(* the type real.                                                          *)
(***************************************************************************)
C1_StepSizeClamping ==
  pc \in InBody =>
    dtphys = IF fadd(etime, Candidate) > sim_time
               THEN fsub(sim_time, etime) ELSE Candidate

\* a second iteration whose candidate was cut down to what is left
C1_Witness ==
  /\ pc = "dycore.time_step"
  /\ iter >= 1
  /\ fadd(etime, Candidate) > sim_time
  /\ dtphys = sim_time - etime
  /\ dtphys < Candidate

(***************************************************************************)
(* C2  Termination.  From elapsed = 0 with T > 0 and strictly positive     *)
(* candidate steps the loop ends with the elapsed time equal to T exactly. *)
(* Stated on the final state: once the loop has been left, etime = T.      *)
(***************************************************************************)
PositiveCandidates ==
  IF dtphys_in <= 0 THEN \A i \in DOMAIN returned : returned[i] > 0
                    ELSE dtphys_in > 0

C2_FinalElapsedIsTarget ==
  (pc = "done" /\ sim_time > 0 /\ PositiveCandidates) => etime = sim_time

(***************************************************************************)
(* C3  Sample causality.  For every generate_samples(input, coupler, dt,   *)
(* etime) call the post-state is the pre-state after exactly one           *)
(* micro.time_step with that dt, and between the clone_into that made the  *)
(* pre-state and the generate_samples call only micro.time_step is called. *)
(***************************************************************************)
C3_SampleCausality ==
  /\ \A i \in DOMAIN samples :
        samples[i].post = MicroStep(samples[i].pre, samples[i].dt)
  /\ \A j \in DOMAIN calls :
        calls[j][1] = "generate_samples" =>
          /\ j > 2
          /\ calls[j - 1] = Call("micro.time_step", calls[j][2])
          /\ calls[j - 2] = Call("clone_into", << >>)

\* two samples taken with different steps, the second one clamped
C3_Witness ==
  /\ Len(samples) >= 2
  /\ samples[1].dt # samples[2].dt
  /\ samples[2].dt < cand
  /\ samples[2].pre # samples[1].post

(***************************************************************************)
(* C4  Clone independence.  The snapshot made by clone_into is complete    *)
(* before micro.time_step starts, and after micro.time_step has changed    *)
(* the live coupler the snapshot still holds what the coupler held when it *)
(* was cloned: the state dycore.time_step left in this iteration.          *)
(***************************************************************************)
C4_CloneIndependence ==
  /\ pc = "micro.time_step" =>
        /\ InputFields = coupler
        /\ LastDycore(coupler) = Len(coupler)
  /\ pc \in AfterMicro =>
        /\ InputFields = SubSeq(coupler, 1, LastDycore(coupler))
        /\ coupler[LastDycore(coupler) + 1] = Call("micro.time_step", << dtphys >>)
        /\ Last(InputFields) = Call("dycore.time_step", << dtphys >>)

\* the live coupler has gone through micro, sponge and nudge since the clone
C4_Witness ==
  /\ pc = "advance"
  /\ iter >= 1
  /\ Len(coupler) = Len(InputFields) + 3
  /\ InputFields # coupler

(***************************************************************************)
(* C5  Sample ordering.  Samples are emitted in strictly increasing        *)
(* elapsed-time order, one per completed iteration: whenever the loop      *)
(* guard is evaluated the number of samples is the number of completed     *)
(* iterations.                                                             *)
(***************************************************************************)
C5_SampleOrdering ==
  /\ \A i, j \in DOMAIN samples : i < j => samples[i].etime < samples[j].etime
  /\ pc \in { "loop_test", "done" } => Len(samples) = iter

(***************************************************************************)
(* C6  Positive step.  The dt handed to dycore.time_step, micro.time_step, *)
(* generate_samples, sponge_layer and nudge_to_column is strictly positive *)
(* in every iteration, whatever dt_phys is configured and whatever         *)
(* compute_time_step returns.                                              *)
(***************************************************************************)
SteppedCalls == { "dycore.time_step", "micro.time_step", "generate_samples",
                  "sponge_layer", "nudge_to_column" }

C6_PositiveStep ==
  \A i \in DOMAIN calls : calls[i][1] \in SteppedCalls => calls[i][2][1] > 0

(***************************************************************************)
(* C7  Configuration errors are fatal before allocation.                   *)
(***************************************************************************)
GridPositive ==
  /\ grid.nz > 0 /\ grid.ny > 0 /\ grid.nx > 0
  /\ grid.xlen > 0 /\ grid.ylen > 0 /\ grid.zlen > 0

\* C7 as claimed: allocate_coupler_state is reached only with the argument
\* present, a valid configuration and nz, ny, nx, xlen, ylen, zlen and
\* sim_time all positive.
C7_NonPositiveNeverAllocates ==
  HasCall("allocate_coupler_state") =>
    argc > 1 /\ config /\ GridPositive /\ sim_time > 0

\* C7 as amended: when the input file argument is missing or the loaded
\* configuration is invalid the run ends in the fatal state, and no call into
\* the coupler or a module (allocate_coupler_state included) is ever made.
C7_ConfigErrorsFatal ==
  /\ calls # << >> => argc > 1 /\ config
  /\ (pc # "check_argc" /\ argc <= 1) => pc = "fatal"
  /\ (pc \notin { "check_argc", "load_file", "check_config" } /\ ~config)
        => pc = "fatal"

\* the run was ended by an invalid configuration, before any call
C7_Witness ==
  /\ pc = "fatal"
  /\ argc = 2
  /\ ~config
  /\ calls = << >>
  /\ failed = "none"

(***************************************************************************)
(* C8  Fixed-step scenario.  With sim_time = 10 and dt_phys = 5 the loop   *)
(* runs exactly 2 iterations, the elapsed time after them is 5 then 10,    *)
(* and exactly 2 samples are emitted, each with dt = 5.                    *)
(***************************************************************************)
C8_FixedStepScenario ==
  (sim_time = 10 /\ dtphys_in = 5) =>
    /\ iter <= 2
    /\ Len(samples) <= 2
    /\ \A i \in DOMAIN samples : samples[i].dt = 5
    /\ pc \in { "loop_test", "done" } => etime = 5 * iter
    /\ pc = "done" => iter = 2 /\ Len(samples) = 2 /\ etime = 10

C8_Witness ==
  /\ pc = "done"
  /\ sim_time = 10
  /\ dtphys_in = 5
  /\ grid = GoodGrid
  /\ iter = 2

(***************************************************************************)
(* C9  Auto-step scenario.  With sim_time = 10, dt_phys = 0 and            *)
(* compute_time_step returning 7 in each iteration, the first step is 7    *)
(* (elapsed 7), the second candidate 7 is clamped to 3 (elapsed 10), the   *)
(* loop ends, and exactly 2 samples are emitted with dt = 7 then dt = 3.   *)
(***************************************************************************)
AlwaysReturned(v) == \A i \in DOMAIN returned : returned[i] = v

C9_AutoStepScenario ==
  (sim_time = 10 /\ dtphys_in = 0 /\ AlwaysReturned(7)) =>
    /\ Len(returned) <= 2
    /\ iter <= 2
    /\ \A i \in DOMAIN samples : samples[i].dt = (IF i = 1 THEN 7 ELSE 3)
    /\ pc \in { "loop_test", "done" } =>
          etime = (IF iter = 0 THEN 0 ELSE IF iter = 1 THEN 7 ELSE 10)
    /\ pc = "done" => iter = 2 /\ Len(samples) = 2 /\ etime = 10

C9_Witness ==
  /\ pc = "done"
  /\ sim_time = 10
  /\ dtphys_in = 0
  /\ returned = << 7, 7 >>
  /\ Len(samples) = 2

(***************************************************************************)
(* C10  Fail-fast.  When an init or step call fails the run is over: the   *)
(* step that fails leaves the program in the fatal state without advancing *)
(* the elapsed time or emitting a sample, and after it no call is made     *)
(* (the failed call is not repeated), no sample is emitted and the elapsed *)
(* time does not change.                                                   *)
(***************************************************************************)
C10_FailFast ==
  [][ failed' # "none" =>
        /\ pc' = "fatal"
        /\ etime' = etime
        /\ samples' = samples
        /\ failed # "none" => (calls' = calls /\ failed' = failed) ]_vars

\* micro.time_step failed in the second iteration
C10_Witness ==
  /\ failed = "micro.time_step"
  /\ pc = "fatal"
  /\ iter = 1
  /\ Len(samples) = 1
  /\ Last(calls)[1] = "micro.time_step"

(***************************************************************************)
(* Call sequences.                                                         *)
(***************************************************************************)
LoopOrder == << "dycore.time_step", "clone_into", "micro.time_step",
                "generate_samples", "sponge_layer", "nudge_to_column" >>

InitOrder == << "micro.init", "dycore.init", "set_column",
                "perturb_temperature", "data_generator.init" >>

Range(f) == { f[i] : i \in DOMAIN f }

\* the names of the calls made so far that belong to the set S, in order
NamesIn(S) ==
  LET sel == SelectSeq(calls, LAMBDA c : c[1] \in S)
  IN  [i \in DOMAIN sel |-> sel[i][1]]

LoopCalls == NamesIn(Range(LoopOrder))

InitCalls == NamesIn(Range(InitOrder))

InitNames == Range(InitOrder)

\* every call made from inside the loop
LoopNames == Range(LoopOrder) \cup { "compute_time_step" }

\* how many calls of the running iteration have been made at position p
DoneInIteration(p) ==
  IF p \in { "loop_test", "compute_dt", "clamp", "dycore.time_step", "done" } THEN 0
  ELSE IF p = "clone_into" THEN 1
  ELSE IF p = "micro.time_step" THEN 2
  ELSE IF p = "generate_samples" THEN 3
  ELSE IF p = "sponge_layer" THEN 4
  ELSE IF p = "nudge_to_column" THEN 5
  ELSE 6

(***************************************************************************)
(* C11  Per-iteration operator order.  In every iteration the calls are    *)
(* made once each in the order dycore.time_step, clone_into,               *)
(* micro.time_step, generate_samples, sponge_layer, nudge_to_column, then  *)
(* the time is advanced; no call of the next iteration is made before the  *)
(* nudge and the time advance of this one.                                 *)
(***************************************************************************)
C11_IterationOrder ==
  LET lc == LoopCalls
  IN  /\ \A i \in DOMAIN lc : lc[i] = LoopOrder[((i - 1) % 6) + 1]
      /\ 6 * iter <= Len(lc) /\ Len(lc) <= 6 * iter + 6
      /\ pc \in { "loop_test", "compute_dt", "clamp", "done" } \cup InBody =>
            Len(lc) = 6 * iter + DoneInIteration(pc)

\* the third iteration has started after two complete ones
C11_Witness ==
  /\ pc = "clone_into"
  /\ iter = 2
  /\ Len(LoopCalls) = 13

(***************************************************************************)
(* C12  Initialization order.  Before the first loop iteration micro.init, *)
(* dycore.init, set_column, perturb_temperature and data_generator.init    *)
(* run exactly once each, in that order; perturb_temperature runs after    *)
(* set_column and before the loop, and none of the five is called inside   *)
(* the loop.                                                               *)
(***************************************************************************)
C12_InitOrder ==
  LET ic  == InitCalls
      \* the initialization calls and the calls of the loop, in the order made
      all == NamesIn(InitNames \cup LoopNames)
  IN  /\ Len(ic) <= 5
      /\ \A i \in DOMAIN ic : ic[i] = InitOrder[i]
      /\ (Len(all) > Len(ic)
            \/ pc \in { "loop_init", "loop_test", "compute_dt", "clamp", "done" } \cup InBody)
            => ic = InitOrder
      /\ \A i \in DOMAIN all : all[i] \in InitNames <=> i <= Len(ic)

\* the second iteration runs, the five initialization calls lie before the loop
C12_Witness ==
  /\ pc = "sponge_layer"
  /\ iter = 1
  /\ InitCalls = InitOrder
  /\ Len(LoopCalls) = 10

(***************************************************************************)
(* C13  Loop invariant.  From loop entry to loop exit the elapsed time     *)
(* never decreases from one observation to the next and never exceeds      *)
(* sim_time, for every configured sim_time and every sequence of steps.    *)
(***************************************************************************)
InLoop == pc \in { "loop_test", "compute_dt", "clamp", "done" } \cup InBody

C13_LoopInvariant ==
  [][ /\ etime' >= etime
      /\ InLoop' => etime' <= sim_time' ]_vars

(***************************************************************************)
(* C14  Finished is terminal.  Once etime >= sim_time is seen at the loop  *)
(* guard the loop is left and no further call is made; when the elapsed    *)
(* time has reached the target already at the start of the loop, no        *)
(* iteration runs, compute_time_step is not queried and no sample is       *)
(* emitted.                                                                *)
(***************************************************************************)
C14_FinishedIsTerminal ==
  [][ /\ (pc = "loop_test" /\ etime >= sim_time) =>
            (pc' = "done" /\ calls' = calls /\ samples' = samples)
      /\ pc = "done" => (pc' = "done" /\ calls' = calls /\ samples' = samples)
      /\ (pc' = "done" /\ sim_time' <= 0) =>
            /\ iter' = 0
            /\ samples' = << >>
            /\ \A i \in DOMAIN calls' :
                  calls'[i][1] \notin Range(LoopOrder) \cup { "compute_time_step" } ]_vars

\* the target was reached before the first iteration: the loop is left at once
C14_Witness ==
  /\ pc = "done"
  /\ sim_time = 0
  /\ etime = 0
  /\ iter = 0
  /\ Last(calls)[1] = "data_generator.init"

(***************************************************************************)
(* C15  Step source selection.  With a positive dt_phys,                   *)
(* compute_time_step is never called and the candidate of every iteration  *)
(* is dt_phys.  With a non-positive dt_phys, compute_time_step is called   *)
(* exactly once per iteration, before the dycore.time_step of that         *)
(* iteration, and the value it returns is the candidate.                   *)
(***************************************************************************)
StepCalls == NamesIn({ "compute_time_step", "dycore.time_step" })

C15_StepSource ==
  /\ dtphys_in > 0 =>
        /\ ~HasCall("compute_time_step")
        /\ returned = << >>
        /\ pc = "clamp" => dtphys = dtphys_in
        /\ pc \in { "clamp" } \cup InBody => cand = dtphys_in
  /\ dtphys_in <= 0 =>
        /\ LET sc == StepCalls
           IN  /\ \A i \in DOMAIN sc :
                     sc[i] = IF i % 2 = 1 THEN "compute_time_step"
                                         ELSE "dycore.time_step"
               /\ pc \in { "loop_test", "compute_dt", "done" } => Len(sc) = 2 * iter
               /\ pc \in { "clamp", "dycore.time_step" } => Len(sc) = 2 * iter + 1
        /\ pc \in { "clamp", "dycore.time_step" } => Len(returned) = iter + 1
        /\ pc = "clamp" => dtphys = Last(returned)
        /\ pc \in { "clamp" } \cup InBody => cand = Last(returned)

\* auto mode, second iteration: a second, different value has been returned
C15_Witness ==
  /\ dtphys_in = 0
  /\ pc = "clamp"
  /\ iter = 1
  /\ Len(returned) = 2
  /\ returned[1] # returned[2]
  /\ dtphys = returned[2]

(***************************************************************************)
(* C16  Setup precedes init.  set_phys_constants is called exactly once    *)
(* and before allocate_coupler_state; allocate_coupler_state and set_grid  *)
(* are called exactly once each and have both returned before micro.init   *)
(* runs; none of the three is called again afterwards.                     *)
(***************************************************************************)
SetupOrder == << "set_phys_constants", "allocate_coupler_state", "set_grid" >>

SetupCalls == NamesIn(Range(SetupOrder))

\* the positions of the calls named name in the call log
CallsOf(name) == { i \in DOMAIN calls : calls[i][1] = name }

C16_SetupPrecedesInit ==
  /\ \A n \in Range(SetupOrder) : Cardinality(CallsOf(n)) <= 1
  /\ \A i \in CallsOf("allocate_coupler_state") :
        \E j \in CallsOf("set_phys_constants") : j < i
  /\ \A i \in CallsOf("micro.init") :
        /\ \E j \in CallsOf("allocate_coupler_state") : j < i
        /\ \E j \in CallsOf("set_grid") : j < i
        /\ \E j \in CallsOf("set_phys_constants") : j < i
  /\ pc \notin { "check_argc", "load_file", "check_config", "read_config",
                 "set_phys_constants", "allocate_coupler_state", "set_grid",
                 "fatal" } => SetupCalls = SetupOrder

\* the loop runs and the three set-up calls are still the first three calls
C16_Witness ==
  /\ pc = "advance"
  /\ iter = 1
  /\ SetupCalls = SetupOrder
  /\ CallsOf("micro.init") = { 5 }

(***************************************************************************)
(* C17  Single dt per iteration.  Within one iteration dycore.time_step,   *)
(* micro.time_step, generate_samples, sponge_layer and nudge_to_column are *)
(* given the same dt, the elapsed time is advanced by that value (the      *)
(* addition etime + dt of the type real), and the dt recorded in the       *)
(* sample of the iteration is that value.                                  *)
(***************************************************************************)
\* the calls made so far that are given a dt, five per iteration
Stepped == SelectSeq(calls, LAMBDA c : c[1] \in SteppedCalls)

C17_SingleDt ==
  /\ LET st == Stepped
     IN  /\ \A i \in DOMAIN st : st[i][2] = st[5 * ((i - 1) \div 5) + 1][2]
         /\ \A k \in DOMAIN samples : st[5 * (k - 1) + 1][2] = << samples[k].dt >>
         /\ (pc \in InBody /\ Len(st) > 5 * iter) => Last(st)[2] = << dtphys >>
  /\ (pc \in { "loop_test", "done" } /\ iter >= 1) =>
        /\ Len(samples) = iter
        /\ etime = fadd(samples[iter].etime, samples[iter].dt)

\* two iterations done, the second one with a clamped step
C17_Witness ==
  /\ pc = "loop_test"
  /\ iter = 2
  /\ samples[2].dt < cand
  /\ samples[1].dt # samples[2].dt
  /\ etime = samples[1].dt + samples[2].dt

(***************************************************************************)
(* C18  Sample time chain.  The elapsed time recorded in a sample is the   *)
(* time at the start of its iteration: the first sample has elapsed = 0,   *)
(* each later sample's elapsed is the previous sample's elapsed plus the   *)
(* previous sample's dt, and on termination with positive steps and T > 0  *)
(* the last sample's elapsed + dt equals sim_time.                         *)
(***************************************************************************)
C18_ChainStart == samples # << >> => samples[1].etime = 0

C18_ChainLinks ==
  \A i \in DOMAIN samples :
    i > 1 => samples[i].etime = fadd(samples[i - 1].etime, samples[i - 1].dt)

C18_ChainEnd ==
  (pc = "done" /\ sim_time > 0 /\ PositiveCandidates) =>
    /\ samples # << >>
    /\ fadd(Last(samples).etime, Last(samples).dt) = sim_time

C18_SampleTimeChain == C18_ChainStart /\ C18_ChainLinks /\ C18_ChainEnd

(***************************************************************************)
(* C19  Clamping only on the last step.  With positive candidate steps the *)
(* clamp dt = sim_time - etime is applied in at most one iteration of a    *)
(* run and that iteration is the final one; in fixed mode every non-final  *)
(* iteration uses exactly dt_phys, and the overwritten dtphys is never the *)
(* candidate of a later iteration.                                         *)
(***************************************************************************)
\* the candidate step of the iteration that emitted sample i
CandidateOf(i) == IF dtphys_in <= 0 THEN returned[i] ELSE dtphys_in

\* the guard of line 70 held in the iteration that emitted sample i
ClampedAt(i) == fadd(samples[i].etime, CandidateOf(i)) > sim_time

\* the loop guard fails after the iteration that emitted sample i
FinalAt(i) == ~(fadd(samples[i].etime, samples[i].dt) < sim_time)

C19_ClampIsFinal ==
  PositiveCandidates => \A i \in DOMAIN samples : ClampedAt(i) => FinalAt(i)

C19_FixedUsesDtPhys ==
  dtphys_in > 0 =>
    /\ \A i \in DOMAIN samples : ~FinalAt(i) => samples[i].dt = dtphys_in
    /\ pc \in { "clamp" } \cup InBody => cand = dtphys_in

C19_ClampOnlyLast == C19_ClampIsFinal /\ C19_FixedUsesDtPhys

====
